---- MODULE Spec2Model ----
(***************************************************************************)
(* A model of the pubsub dispatcher of libs/pubsub/pubsub.go: the Server   *)
(* with its publish channel, the two readers-writer locks, the shutdown    *)
(* monitor, the sender goroutine and the subscription index.               *)
(*                                                                         *)
(* The Subscription type, its queue and the subIndex type live in files of *)
(* the package that are not part of the sources at hand (subscription.go,  *)
(* subindex.go); they are modelled from the written specification and are  *)
(* marked so in the model map.                                             *)
(***************************************************************************)
EXTENDS Integers, Sequences, FiniteSets, TLC

\* ------------------------------------------------------------------ bounds
MaxPublish == 2      \* Publish calls made over a run
MaxSubs == 3         \* subscriptions created over a run
MaxCap == 1          \* the largest BufferCapacity tried
MaxEvents == 2       \* events in a published list of valued events

\* ------------------------------------------------------------- vocabulary
NIL == "nil"

ErrSubscriptionNotFound == "ErrSubscriptionNotFound"
ErrAlreadySubscribed == "ErrAlreadySubscribed"
ErrServerStopped == "ErrServerStopped"
ErrUnsubscribed == "ErrUnsubscribed"
ErrTerminated == "ErrTerminated"
ErrOutOfCapacity == "ErrOutOfCapacity"
ErrQueryIsNil == "query is nil"
ErrInvalidLimit == "invalid queue limit"
ErrNoSubscriber == "must specify a subscriber"
ErrNotFullyDefined == "subscription is not fully defined"
ErrObserveNil == "observe callback is nil"
ErrObserveTwice == "an observer is already registered"
ErrCtx == "ctx.Err()"
Panic == "panic"
OK == "ok"

Clients == {"c1", "c2"}

\* Query values handed to the server.  qa and qa2 are two distinct query
\* objects that print the same; qx asks for another attribute and its
\* evaluation fails on an event list that carries both.
QueryObjs == {"qa", "qa2", "qx"}

\* Queries over attribute values: conjunctions of conditions tag = 'value',
\* the tag being the composite key <<event type, attribute key>>.
ConjunctionQueries == {"qFoo", "qFooBaz", "qFooNone"}

Condition(type, key, value) == [tag |-> <<type, key>>, value |-> value]

\* the conditions of a conjunction query, in the order written
Conditions(q) ==
    CASE q = "qFoo" -> <<Condition("transfer", "sender", "foo")>>
      [] q = "qFooBaz" -> <<Condition("transfer", "sender", "foo"),
                            Condition("transfer", "sender", "baz")>>
      [] q = "qFooNone" -> <<Condition("transfer", "sender", "foo"),
                             Condition("transfer", "sender", "DoesNotExist")>>

\* Query.String
String(q) == CASE q = "qa" -> "tm.a='1'"
               [] q = "qa2" -> "tm.a='1'"
               [] q = "qx" -> "tm.x EXISTS"
               [] q = "qFoo" -> "transfer.sender='foo'"
               [] q = "qFooBaz" -> "transfer.sender='foo' AND transfer.sender='baz'"
               [] q = "qFooNone" ->
                    "transfer.sender='foo' AND transfer.sender='DoesNotExist'"

QueryStrings == {String(q) : q \in QueryObjs}

\* The event lists published, as the set of attributes they carry.
EventLists == {{"a"}, {"a", "x"}}

\* Event lists with attribute values: a sequence of events, each with a type
\* and a sequence of <<key, value>> attributes.
EventTypes == {"transfer", "withdraw"}

AttrValues == {"foo", "baz"}

\* an event with the one attribute sender
SenderEvent(type, value) == [type |-> type, attributes |-> <<<<"sender", value>>>>]

\* the events published by TestEventBusPublishEventTxDuplicateKeys
DuplicateKeysEvents ==
    <<[type |-> "transfer",
       attributes |-> <<<<"sender", "foo">>, <<"recipient", "bar">>,
                        <<"amount", "5">>>>],
      [type |-> "transfer",
       attributes |-> <<<<"sender", "baz">>, <<"recipient", "cat">>,
                        <<"amount", "13">>>>],
      [type |-> "withdraw.rewards",
       attributes |-> <<<<"address", "bar">>, <<"source", "iceman">>,
                        <<"amount", "33">>>>]>>

\* the event lists with values that are published: the list of the test and
\* every list of up to MaxEvents events naming a sender
ValuedEventLists ==
    {DuplicateKeysEvents}
        \cup UNION {[1..n -> {SenderEvent(t, v) : t \in EventTypes, v \in AttrValues}] :
                      n \in 1..MaxEvents}

\* the attributes of one event, each under its composite key
AttrsOf(e) ==
    [j \in DOMAIN e.attributes |->
        [tag |-> <<e.type, e.attributes[j][1]>>, value |-> e.attributes[j][2]]]

\* the attributes of an event list, in order
RECURSIVE Flatten(_)
Flatten(events) ==
    IF events = <<>> THEN <<>>
    ELSE AttrsOf(Head(events)) \o Flatten(Tail(events))

\* the map composite key -> values built for the evaluation: the values
\* found under tag, with their repetitions
ValuesUnder(events, tag) ==
    LET under == SelectSeq(Flatten(events), LAMBDA a : a.tag = tag)
    IN [i \in DOMAIN under |-> under[i].value]

\* a condition is true iff at least one value under its tag satisfies it;
\* a missing key makes it false
ConditionHolds(cond, events) ==
    \E i \in DOMAIN ValuesUnder(events, cond.tag) :
       ValuesUnder(events, cond.tag)[i] = cond.value

\* AND composes the booleans of the conditions
ConjunctionHolds(conds, events) ==
    \A n \in DOMAIN conds : ConditionHolds(conds[n], events)

\* a conjunction evaluated per occurrence: one attribute must satisfy every
\* condition
OccurrenceHolds(conds, events) ==
    \E i \in DOMAIN Flatten(events) :
       \A n \in DOMAIN conds :
          /\ Flatten(events)[i].tag = conds[n].tag
          /\ Flatten(events)[i].value = conds[n].value

\* a Matches that evaluates conjunctions per occurrence
MatchesPerOccurrence(q, events) ==
    CASE q \in {"qa", "qa2"} -> <<"a" \in events, NIL>>
      [] q = "qx" -> IF {"a", "x"} \subseteq events
                       THEN <<FALSE, "match error">>
                       ELSE <<"x" \in events, NIL>>
      [] q \in ConjunctionQueries ->
           <<OccurrenceHolds(Conditions(q), events), NIL>>

\* Query.Matches: <<match, err>>
Matches(q, events) ==
    CASE q \in {"qa", "qa2"} -> <<"a" \in events, NIL>>
      [] q = "qx" -> IF {"a", "x"} \subseteq events
                       THEN <<FALSE, "match error">>
                       ELSE <<"x" \in events, NIL>>
      [] q \in ConjunctionQueries ->
           <<ConjunctionHolds(Conditions(q), events), NIL>>

VARIABLES
    started,      \* BaseService: Start has run OnStart (s.run)
    done,         \* s.done is closed (s.stop, the cancel func, was called)
    queueCap,     \* s.queueCap, cap(s.queue)
    queue,        \* s.queue: the items buffered in the publish channel
    queueClosed,  \* close(s.queue) has happened
    pubsReaders,  \* s.pubs: number of shared holders
    monitor,      \* position of the shutdown monitor goroutine
    exited,       \* s.exited is closed
    subsReaders,  \* s.subs: number of shared holders
    index,        \* s.subs.index (NilIndex once the sender has cleared it)
    observe,      \* s.subs.observe (NoObserver when none is registered)
    subs,         \* every Subscription created so far, by subscription ID
    sender,       \* the sender goroutine: position and the locals of send
    pub,          \* the Publish calls: position, arguments, result
    dequeued,     \* history: the data of the items the sender dequeued, in order
    recvd         \* history: per subscription, the data Next has returned

vars == <<started, done, queueCap, queue, queueClosed, pubsReaders, monitor,
          exited, subsReaders, index, observe, subs, sender, pub, dequeued,
          recvd>>

serverVars == <<started, done, queueCap, queue, queueClosed, pubsReaders,
                monitor, exited>>

SubIDs == 1..MaxSubs
PubIDs == 1..MaxPublish

Range(f) == {f[x] : x \in DOMAIN f}

Created == DOMAIN subs

\* ------------------------------------------------------ subscription index
\* subInfo: what the index keeps for a subscription
subInfo(clientID, q, subID) == [clientID |-> clientID, query |-> q, subID |-> subID]

\* newSubIndex: a usable (non-nil) index with empty relations
newSubIndex ==
    [live |-> TRUE, all |-> {}, byID |-> <<>>, byClient |-> <<>>, byQuery |-> <<>>]

\* the nil *subIndex the sender leaves behind at exit
NilIndex ==
    [live |-> FALSE, all |-> {}, byID |-> <<>>, byClient |-> <<>>, byQuery |-> <<>>]

\* s.subs.index == nil
IsNil(idx) == ~idx.live

\* map[k] = the set under k with si added, creating the key
AddTo(m, k, si) ==
    [x \in DOMAIN m \cup {k} |-> IF x = k
                                   THEN (IF k \in DOMAIN m THEN m[k] ELSE {}) \cup {si}
                                   ELSE m[x]]

\* remove the entries from every set of the map, deleting keys left empty
RemoveFrom(m, set) ==
    [x \in {k \in DOMAIN m : m[k] \ set # {}} |-> m[x] \ set]

\* subIndex.add
IndexAdd(idx, si) ==
    [live |-> idx.live,
     all |-> idx.all \cup {si},
     byID |-> [x \in DOMAIN idx.byID \cup {si.subID} |->
                  IF x = si.subID THEN si ELSE idx.byID[x]],
     byClient |-> AddTo(idx.byClient, si.clientID, si),
     byQuery |-> AddTo(idx.byQuery, String(si.query), si)]

\* subIndex.findClientID
findClientID(idx, clientID) ==
    IF clientID \in DOMAIN idx.byClient THEN idx.byClient[clientID] ELSE {}

\* subIndex.findQuery
findQuery(idx, qs) ==
    IF qs \in DOMAIN idx.byQuery THEN idx.byQuery[qs] ELSE {}

\* subInfoSet.withQuery
withQuery(set, qs) == {si \in set : String(si.query) = qs}

\* subIndex.contains
contains(idx, clientID, qs) ==
    withQuery(findClientID(idx, clientID), qs) # {}

\* subIndex.removeAll
IndexRemoveAll(idx, set) ==
    [live |-> idx.live,
     all |-> idx.all \ set,
     byID |-> [x \in DOMAIN idx.byID \ {si.subID : si \in set} |-> idx.byID[x]],
     byClient |-> RemoveFrom(idx.byClient, set),
     byQuery |-> RemoveFrom(idx.byQuery, set)]

\* ------------------------------------------------------------ Subscription
\* newSubscription(quota, limit): the error, NIL when the capacities are valid
newSubscriptionErr(quota, limit) ==
    IF limit <= 0 \/ quota < 0 \/ quota > limit THEN ErrInvalidLimit ELSE NIL

\* newSubscription: an empty queue; quota 0 means the limit
newSubscription(quota, limit) ==
    [limit |-> limit, quota |-> IF quota = 0 THEN limit ELSE quota,
     queue |-> <<>>, stopErr |-> NIL]

\* Subscription.publish: the error of a non-blocking enqueue, NIL on success
SubPublishErr(s) ==
    IF s.stopErr # NIL THEN s.stopErr
    ELSE IF Len(s.queue) >= s.limit THEN ErrOutOfCapacity
    ELSE NIL

\* Subscription.publish: the subscription after the call
SubPublish(s, msg) ==
    IF SubPublishErr(s) = NIL THEN [s EXCEPT !.queue = Append(@, msg)] ELSE s

\* Subscription.stop: latches the first terminal error; what was queued is
\* never handed out after that
SubStop(s, err) ==
    IF s.stopErr = NIL THEN [s EXCEPT !.stopErr = err, !.queue = <<>>] ELSE s

\* Subscription.Next: what a call returns now ("blocks" while it has to wait)
NextResult(s) ==
    IF s.stopErr # NIL THEN s.stopErr
    ELSE IF s.queue # <<>> THEN Head(s.queue).data
    ELSE "blocks"

\* ---------------------------------------------------------------- initial
NoItem == [data |-> 0, events |-> {}]

NoObserver == [fn |-> NIL, queries |-> {}]

\* the sender's locals; seen records the subscriptions that were in the index
\* when the range loop over s.queue ended, obs what became of each item at
\* the observer, as pairs <<data, outcome>>, restopped the subscriptions
\* the deferred cleanup of send stopped although they were terminal, spared
\* the subscriptions that were in the index at a cleanup under the client
\* and query of one the cleanup evicted
SenderIdle == [pc |-> "off", it |-> NoItem, todo |-> {}, evict |-> {},
               sent |-> {}, err |-> NIL, seen |-> {}, obs |-> {},
               restopped |-> {}, spared |-> {}]

PubIdle == [pc |-> "idle", events |-> {}, ctx |-> "live", afterStop |-> FALSE]

\* NewServer(BufferCapacity(cap))
Init ==
    /\ started = FALSE
    /\ done = FALSE
    /\ queueCap \in 0..MaxCap
    /\ queue = <<>>
    /\ queueClosed = FALSE
    /\ pubsReaders = 0
    /\ monitor = "off"
    /\ exited = FALSE
    /\ subsReaders = 0
    /\ index = newSubIndex
    /\ observe = NoObserver
    /\ subs = <<>>
    /\ sender = SenderIdle
    /\ pub = [k \in PubIDs |-> PubIdle]
    /\ dequeued = <<>>
    /\ recvd = <<>>

\* ------------------------------------------------------ service lifecycle
\* Start -> OnStart -> run: the done channel, the monitor and the sender
Start ==
    /\ ~started
    /\ started' = TRUE
    /\ monitor' = "wait"
    /\ sender' = [sender EXCEPT !.pc = "recv"]
    /\ UNCHANGED <<done, queueCap, queue, queueClosed, pubsReaders, exited,
                   subsReaders, index, observe, subs, pub, dequeued, recvd>>

\* a Stop that sets the shutdown monitor going again
StopRearmingMonitor ==
    /\ started
    /\ done' = TRUE
    /\ monitor' = IF monitor = "exit" THEN "wait" ELSE monitor
    /\ UNCHANGED <<started, queueCap, queue, queueClosed, pubsReaders,
                   exited, subsReaders, index, observe, subs, sender, pub,
                   dequeued, recvd>>

\* Stop -> OnStop -> s.stop(): cancels the context, which closes s.done
Stop ==
    /\ started
    /\ done' = TRUE
    /\ UNCHANGED <<started, queueCap, queue, queueClosed, pubsReaders, monitor,
                   exited, subsReaders, index, observe, subs, sender, pub,
                   dequeued, recvd>>

\* the shutdown monitor: <-ctx.Done() returns, s.pubs.Lock() is requested
monitorWake ==
    /\ monitor = "wait"
    /\ done
    /\ monitor' = "lock"
    /\ UNCHANGED <<started, done, queueCap, queue, queueClosed, pubsReaders,
                   exited, subsReaders, index, observe, subs, sender, pub,
                   dequeued, recvd>>

\* the shutdown monitor leaving without close(s.queue)
monitorCloseQueueOpen ==
    /\ monitor = "lock"
    /\ pubsReaders = 0
    /\ monitor' = "exit"
    /\ UNCHANGED <<started, done, queueCap, queue, queueClosed, pubsReaders,
                   exited, subsReaders, index, observe, subs, sender, pub,
                   dequeued, recvd>>

\* the shutdown monitor: s.pubs.Lock(); close(s.queue); s.pubs.Unlock()
monitorClose ==
    /\ monitor = "lock"
    /\ pubsReaders = 0
    /\ queueClosed' = TRUE
    /\ monitor' = "exit"
    /\ UNCHANGED <<started, done, queueCap, queue, pubsReaders, exited,
                   subsReaders, index, observe, subs, sender, pub, dequeued,
                   recvd>>

\* ----------------------------------------------------------------- Publish
\* a send on s.queue can proceed: the channel is closed (the send panics),
\* the buffer has room, or the sender is waiting to receive
CanSend ==
    \/ queueClosed
    \/ Len(queue) < queueCap
    \/ (sender.pc = "recv" /\ queue = <<>>)

\* a select without the case <-s.done
SelectReadyNoDone(k) ==
    (IF pub[k].ctx = "canceled" THEN {"ctx"} ELSE {})
        \cup (IF CanSend THEN {"send"} ELSE {})

\* the cases of publish's select that can proceed
SelectReady(k) ==
    (IF started /\ done THEN {"done"} ELSE {})
        \cup (IF pub[k].ctx = "canceled" THEN {"ctx"} ELSE {})
        \cup (IF CanSend THEN {"send"} ELSE {})

\* a Publish call once it has returned res: its arguments are gone
Returned(p, res) == [p EXCEPT !.pc = res, !.events = {}, !.ctx = "live"]

\* Publish / PublishWithEvents is called; publish takes s.pubs.RLock() at
\* once unless the monitor is waiting for the exclusive hold
PublishCall(k, events, ctx) ==
    /\ pub[k].pc = "idle"
    /\ k > 1 => pub[k - 1].pc # "idle"
    /\ pub' = [pub EXCEPT ![k] = [pc |-> IF monitor = "lock" THEN "rlock"
                                                              ELSE "select",
                                  events |-> events, ctx |-> ctx,
                                  afterStop |-> done]]
    /\ pubsReaders' = IF monitor = "lock" THEN pubsReaders ELSE pubsReaders + 1
    /\ UNCHANGED <<started, done, queueCap, queue, queueClosed, monitor, exited,
                   subsReaders, index, observe, subs, sender, dequeued, recvd>>

\* the caller cancels the context of a Publish call in progress
PublishCancel(k) ==
    /\ pub[k].pc \in {"rlock", "select"}
    /\ pub[k].ctx = "live"
    /\ pub' = [pub EXCEPT ![k].ctx = "canceled"]
    /\ UNCHANGED <<serverVars, subsReaders, index, observe, subs, sender,
                   dequeued, recvd>>

\* publish: s.pubs.RLock() once the monitor has released the exclusive hold
publishRLock(k) ==
    /\ pub[k].pc = "rlock"
    /\ monitor # "lock"
    /\ pubsReaders' = pubsReaders + 1
    /\ pub' = [pub EXCEPT ![k].pc = "select"]
    /\ UNCHANGED <<started, done, queueCap, queue, queueClosed, monitor, exited,
                   subsReaders, index, observe, subs, sender, dequeued, recvd>>

\* publish: the select took case <-s.done or case <-ctx.Done()
publishAbort(k, case) ==
    /\ pub[k].pc = "select"
    /\ case \in SelectReady(k) \ {"send"}
    /\ pubsReaders' = pubsReaders - 1
    /\ pub' = [pub EXCEPT ![k] = Returned(@, IF case = "done" THEN ErrServerStopped
                                                                 ELSE ErrCtx)]
    /\ UNCHANGED <<started, done, queueCap, queue, queueClosed, monitor, exited,
                   subsReaders, index, observe, subs, sender, dequeued, recvd>>

\* publish: the select took case s.queue <- item
publishSend(k) ==
    /\ pub[k].pc = "select"
    /\ "send" \in SelectReady(k)
    /\ pubsReaders' = pubsReaders - 1
    /\ LET it == [data |-> k, events |-> pub[k].events] IN
       IF queueClosed
         THEN /\ pub' = [pub EXCEPT ![k] = Returned(@, Panic)]
              /\ UNCHANGED <<queue, sender, dequeued>>
       ELSE IF Len(queue) < queueCap
         THEN /\ pub' = [pub EXCEPT ![k] = Returned(@, OK)]
              /\ queue' = Append(queue, it)
              /\ UNCHANGED <<sender, dequeued>>
       ELSE /\ pub' = [pub EXCEPT ![k] = Returned(@, OK)]
            /\ sender' = [sender EXCEPT !.pc = "send", !.it = it]
            /\ dequeued' = Append(dequeued, it.data)
            /\ UNCHANGED queue
    /\ UNCHANGED <<started, done, queueCap, queueClosed, monitor, exited,
                   subsReaders, index, observe, subs, recvd>>

\* ------------------------------------------------- subscribe / unsubscribe
\* the (Limit, Quota) pairs callers pass: the default, a soft quota below
\* the limit, a quota above the limit
Capacities == {<<0, 0>>, <<2, 1>>, <<1, 2>>}

\* the (Subscriber, ID, Query) triples callers pass to Unsubscribe
UnsubscribeArgs ==
    ((Clients \cup {""}) \X {0} \X {NIL, "qa", "qx"}) \cup (Clients \X {1} \X {NIL})

\* the observer callbacks callers pass (NIL is a nil func)
ObserverFns == {NIL, "rejectEven"}

\* the observer callback: the error it returns for a message
CallbackErr(fn, data) ==
    IF fn = "rejectEven" /\ data % 2 = 0 THEN "observer error" ELSE NIL

\* SubscribeWithArgs taking the default limit whatever args.Limit is
NormLimitAlwaysOne(limit) == 1

\* SubscribeWithArgs: args.Limit after "if args.Limit == 0"
NormLimit(limit) == IF limit = 0 THEN 1 ELSE limit

\* SubscribeWithArgs without the check for an existing subscription
SubscribeResultNoDuplicateCheck(clientID, q, limit, quota) ==
    IF q = NIL THEN ErrQueryIsNil
    ELSE IF IsNil(index) THEN ErrServerStopped
    ELSE IF newSubscriptionErr(quota, NormLimit(limit)) # NIL
      THEN newSubscriptionErr(quota, NormLimit(limit))
    ELSE OK

\* SubscribeWithArgs without the check for a stopped server
SubscribeResultNoStoppedCheck(clientID, q, limit, quota) ==
    IF q = NIL THEN ErrQueryIsNil
    ELSE IF contains(index, clientID, String(q)) THEN ErrAlreadySubscribed
    ELSE IF newSubscriptionErr(quota, NormLimit(limit)) # NIL
      THEN newSubscriptionErr(quota, NormLimit(limit))
    ELSE OK

\* SubscribeWithArgs: the error returned (OK for a new subscription)
SubscribeResult(clientID, q, limit, quota) ==
    IF q = NIL THEN ErrQueryIsNil
    ELSE IF IsNil(index) THEN ErrServerStopped
    ELSE IF contains(index, clientID, String(q)) THEN ErrAlreadySubscribed
    ELSE IF newSubscriptionErr(quota, NormLimit(limit)) # NIL
      THEN newSubscriptionErr(quota, NormLimit(limit))
    ELSE OK

\* SubscribeWithArgs handing a quota to newSubscription as the limit too
SubscribeWithArgsQuotaAsLimit(clientID, q, limit, quota) ==
    /\ subsReaders = 0
    /\ IF SubscribeResult(clientID, q, limit, quota) = OK
         THEN /\ Len(subs) < MaxSubs
              /\ subs' = Append(subs, newSubscription(quota,
                                    IF quota > 0 THEN quota ELSE NormLimit(limit)))
              /\ index' = IndexAdd(index, subInfo(clientID, q, Len(subs) + 1))
              /\ recvd' = Append(recvd, <<>>)
         ELSE UNCHANGED <<subs, index, recvd>>
    /\ UNCHANGED <<serverVars, subsReaders, observe, sender, pub, dequeued>>

SubscribeWithArgs(clientID, q, limit, quota) ==
    /\ subsReaders = 0
    /\ IF SubscribeResult(clientID, q, limit, quota) = OK
         THEN /\ Len(subs) < MaxSubs
              /\ subs' = Append(subs, newSubscription(quota, NormLimit(limit)))
              /\ index' = IndexAdd(index, subInfo(clientID, q, Len(subs) + 1))
              /\ recvd' = Append(recvd, <<>>)
         ELSE UNCHANGED <<subs, index, recvd>>
    /\ UNCHANGED <<serverVars, subsReaders, observe, sender, pub, dequeued>>

\* UnsubscribeArgs.Validate (the empty subscription ID is written 0)
Validate(subscriber, id, q) ==
    IF subscriber = "" THEN ErrNoSubscriber
    ELSE IF id = 0 /\ q = NIL THEN ErrNotFullyDefined
    ELSE NIL

\* Unsubscribe evicting whatever the subscriber has
UnsubscribeEvictAnyQuery(subscriber, id, q) ==
    IF subscriber # "" THEN findClientID(index, subscriber)
                       ELSE findQuery(index, String(q))

\* Unsubscribe: the set of subscriptions to evict
UnsubscribeEvict(subscriber, id, q) ==
    IF subscriber # ""
      THEN IF q # NIL
             THEN withQuery(findClientID(index, subscriber), String(q))
             ELSE findClientID(index, subscriber)
      ELSE findQuery(index, String(q))

\* Unsubscribe: the error returned (OK for nil)
UnsubscribeResult(subscriber, id, q) ==
    IF Validate(subscriber, id, q) # NIL THEN Validate(subscriber, id, q)
    ELSE IF IsNil(index) THEN ErrServerStopped
    ELSE IF UnsubscribeEvict(subscriber, id, q) = {} THEN ErrSubscriptionNotFound
    ELSE OK

\* removeSubs without the calls to stop
removeSubsStopNone(evict, reason) == subs

\* removeSubs setting the reason on those in evict, terminal or not
removeSubsStopOverwrite(evict, reason) ==
    [id \in DOMAIN subs |-> IF \E si \in evict : si.subID = id
                              THEN [subs[id] EXCEPT !.stopErr = reason,
                                                    !.queue = <<>>]
                              ELSE subs[id]]

\* removeSubs: the subscriptions after stopping those in evict
removeSubsStop(evict, reason) ==
    [id \in DOMAIN subs |-> IF \E si \in evict : si.subID = id
                              THEN SubStop(subs[id], reason)
                              ELSE subs[id]]

\* removeSubs leaving the index as it is
removeSubsIndexNone(evict) == index

\* removeSubs emptying the index instead of removing evict
removeSubsIndexAll(evict) == IndexRemoveAll(index, index.all)

\* removeSubs: the index after removeAll(evict)
removeSubsIndex(evict) == IndexRemoveAll(index, evict)

Unsubscribe(subscriber, id, q) ==
    /\ subsReaders = 0
    /\ IF UnsubscribeResult(subscriber, id, q) = OK
         THEN /\ subs' = removeSubsStop(UnsubscribeEvict(subscriber, id, q),
                                        ErrUnsubscribed)
              /\ index' = removeSubsIndex(UnsubscribeEvict(subscriber, id, q))
         ELSE UNCHANGED <<subs, index>>
    /\ UNCHANGED <<serverVars, subsReaders, observe, sender, pub, dequeued,
                   recvd>>

\* UnsubscribeAll: the error returned; the nil index is dereferenced
UnsubscribeAllResult(clientID) ==
    IF IsNil(index) THEN Panic
    ELSE IF findClientID(index, clientID) = {} THEN ErrSubscriptionNotFound
    ELSE OK

\* UnsubscribeAll evicting the subscriptions of every client
UnsubscribeAllEveryone(clientID) ==
    /\ subsReaders = 0
    /\ IF UnsubscribeAllResult(clientID) = OK
         THEN /\ subs' = removeSubsStop(index.all, ErrUnsubscribed)
              /\ index' = removeSubsIndex(index.all)
         ELSE UNCHANGED <<subs, index>>
    /\ UNCHANGED <<serverVars, subsReaders, observe, sender, pub, dequeued,
                   recvd>>

UnsubscribeAll(clientID) ==
    /\ subsReaders = 0
    /\ IF UnsubscribeAllResult(clientID) = OK
         THEN /\ subs' = removeSubsStop(findClientID(index, clientID),
                                        ErrUnsubscribed)
              /\ index' = removeSubsIndex(findClientID(index, clientID))
         ELSE UNCHANGED <<subs, index>>
    /\ UNCHANGED <<serverVars, subsReaders, observe, sender, pub, dequeued,
                   recvd>>

\* NumClients reads s.subs.index.byClient with no check for the nil index
NumClientsPanics == IsNil(index)

\* NumClients: len(s.subs.index.byClient)
NumClients == Cardinality(DOMAIN index.byClient)

\* NumClientSubscriptions: len(s.subs.index.findClientID(clientID))
NumClientSubscriptions(clientID) == Cardinality(findClientID(index, clientID))

\* an Observe that does not turn down the nil callback
ObserveResultNilRegistered(fn, queries) ==
    IF observe.fn # NIL THEN ErrObserveTwice
    ELSE OK

\* Observe: the error returned (OK for nil)
ObserveResult(fn, queries) ==
    IF fn = NIL THEN ErrObserveNil
    ELSE IF observe.fn # NIL THEN ErrObserveTwice
    ELSE OK

\* Observe installing the callback before it refuses a second observer
ObserveReplacing(fn, queries) ==
    /\ subsReaders = 0
    /\ IF fn # NIL
         THEN observe' = [fn |-> fn, queries |-> queries]
         ELSE UNCHANGED observe
    /\ UNCHANGED <<serverVars, subsReaders, index, subs, sender, pub, dequeued,
                   recvd>>

Observe(fn, queries) ==
    /\ subsReaders = 0
    /\ IF ObserveResult(fn, queries) = OK
         THEN observe' = [fn |-> fn, queries |-> queries]
         ELSE UNCHANGED observe
    /\ UNCHANGED <<serverVars, subsReaders, index, subs, sender, pub, dequeued,
                   recvd>>

\* an observer whose errors are dropped
ObserverErrDropped(obs, it) == NIL

\* the function Observe installs: the filter, then the callback
ObserverErr(obs, it) ==
    IF obs.queries = {}
         \/ \E q \in obs.queries :
               Matches(q, it.events)[2] = NIL /\ Matches(q, it.events)[1]
      THEN CallbackErr(obs.fn, it.data)
      ELSE NIL

\* send at the observer: none is registered, its filter skipped the
\* message, or the callback was called and returned nil or an error
ObserverOutcome(obs, it) ==
    IF obs.fn = NIL THEN "none"
    ELSE IF ~(obs.queries = {}
                \/ \E q \in obs.queries :
                      Matches(q, it.events)[2] = NIL /\ Matches(q, it.events)[1])
      THEN "skipped"
    ELSE IF CallbackErr(obs.fn, it.data) # NIL THEN "error"
    ELSE "returned nil"

\* Subscription.Next returns a message
SubscriptionNext(id) ==
    /\ id \in Created
    /\ subs[id].stopErr = NIL
    /\ subs[id].queue # <<>>
    /\ recvd' = [recvd EXCEPT ![id] = Append(@, Head(subs[id].queue).data)]
    /\ subs' = [subs EXCEPT ![id].queue = Tail(@)]
    /\ UNCHANGED <<serverVars, subsReaders, index, observe, sender, pub,
                   dequeued>>

\* ------------------------------------------------------------- the sender
\* the sender entering the loop of send without a call to the observer
senderRecvPastObserver ==
    /\ sender.pc = "recv"
    /\ queue # <<>>
    /\ sender' = [sender EXCEPT !.pc = "loop", !.it = Head(queue),
                                 !.todo = index.all, !.evict = {}, !.sent = {},
                                 !.err = NIL]
    /\ queue' = Tail(queue)
    /\ dequeued' = Append(dequeued, Head(queue).data)
    /\ subsReaders' = subsReaders + 1
    /\ UNCHANGED <<started, done, queueCap, queueClosed, pubsReaders, monitor,
                   exited, index, observe, subs, pub, recvd>>

\* run, the sender: "for it := range s.queue" receives the next item
senderRecv ==
    /\ sender.pc = "recv"
    /\ queue # <<>>
    /\ sender' = [sender EXCEPT !.pc = "send", !.it = Head(queue)]
    /\ queue' = Tail(queue)
    /\ dequeued' = Append(dequeued, Head(queue).data)
    /\ UNCHANGED <<started, done, queueCap, queueClosed, pubsReaders, monitor,
                   exited, subsReaders, index, observe, subs, pub, recvd>>

\* where the sender is once send has returned and released the shared hold
AfterSend(evict) == IF evict = {} THEN "recv" ELSE "evict"

\* the locals of send once the call is over
SendOver(sd, pc) ==
    [sd EXCEPT !.pc = pc, !.todo = {},
               !.it = IF pc = "recv" THEN NoItem ELSE sd.it,
               !.sent = IF pc = "recv" THEN {} ELSE sd.sent,
               !.err = IF pc = "recv" THEN NIL ELSE sd.err]

\* send entering its loop without the shared hold on s.subs
sendObserveNoRLock ==
    /\ sender.pc = "send"
    /\ LET seenBy == sender.obs
                         \cup {<<sender.it.data, ObserverOutcome(observe, sender.it)>>}
       IN
       IF observe.fn # NIL /\ ObserverErr(observe, sender.it) # NIL
         THEN sender' = [SendOver(sender, "recv") EXCEPT !.obs = seenBy]
         ELSE sender' = [sender EXCEPT !.pc = "loop", !.todo = index.all,
                                       !.evict = {}, !.sent = {}, !.err = NIL,
                                       !.obs = seenBy]
    /\ UNCHANGED <<serverVars, subsReaders, index, observe, subs, pub,
                   dequeued, recvd>>

\* send: s.subs.RLock(), then the observer; on its error send returns
sendObserve ==
    /\ sender.pc = "send"
    /\ LET seenBy == sender.obs
                         \cup {<<sender.it.data, ObserverOutcome(observe, sender.it)>>}
       IN
       IF observe.fn # NIL /\ ObserverErr(observe, sender.it) # NIL
         THEN /\ sender' = [SendOver(sender, "recv") EXCEPT !.obs = seenBy]
              /\ UNCHANGED subsReaders
         ELSE /\ sender' = [sender EXCEPT !.pc = "loop", !.todo = index.all,
                                          !.evict = {}, !.sent = {}, !.err = NIL,
                                          !.obs = seenBy]
              /\ subsReaders' = subsReaders + 1
    /\ UNCHANGED <<serverVars, index, observe, subs, pub, dequeued, recvd>>

\* send building the message without the subscription's ID
MessageForNoSubID(id, it) == [subID |-> 0, data |-> it.data, events |-> it.events]

\* send building the message without the item's data
MessageForNoData(id, it) == [subID |-> id, data |-> 0, events |-> it.events]

\* send: the message built for subscription id
MessageFor(id, it) == [subID |-> id, data |-> it.data, events |-> it.events]

\* an iteration of send that goes on to the next subscription when the
\* query fails to evaluate
sendVisitSkipOnError(si) ==
    /\ sender.pc = "loop"
    /\ si \in sender.todo
    /\ LET m == Matches(si.query, sender.it.events)
           id == si.subID
       IN
       IF m[2] # NIL \/ ~m[1]
         THEN /\ sender' = [sender EXCEPT !.todo = @ \ {si}]
              /\ UNCHANGED <<subs, subsReaders>>
       ELSE IF SubPublishErr(subs[id]) # NIL
         THEN /\ sender' = [sender EXCEPT !.todo = @ \ {si},
                                          !.evict = @ \cup {si}]
              /\ UNCHANGED <<subs, subsReaders>>
       ELSE /\ subs' = [subs EXCEPT ![id] = [@ EXCEPT !.queue =
                            Append(@, [subID |-> id, data |-> sender.it.data,
                                       events |-> sender.it.events])]]
            /\ sender' = [sender EXCEPT !.todo = @ \ {si}, !.sent = @ \cup {si}]
            /\ UNCHANGED subsReaders
    /\ UNCHANGED <<serverVars, index, observe, pub, dequeued, recvd>>

\* send: one iteration of "for si := range s.subs.index.all"
sendVisit(si) ==
    /\ sender.pc = "loop"
    /\ si \in sender.todo
    /\ LET m == Matches(si.query, sender.it.events)
           id == si.subID
       IN
       IF m[2] # NIL
         THEN \* match failed: send returns the error
              /\ sender' = SendOver([sender EXCEPT !.err = m[2]],
                                    AfterSend(sender.evict))
              /\ subsReaders' = subsReaders - 1
              /\ UNCHANGED subs
       ELSE IF ~m[1]
         THEN /\ sender' = [sender EXCEPT !.todo = @ \ {si}]
              /\ UNCHANGED <<subs, subsReaders>>
       ELSE IF SubPublishErr(subs[id]) # NIL
         THEN /\ sender' = [sender EXCEPT !.todo = @ \ {si},
                                          !.evict = @ \cup {si}]
              /\ UNCHANGED <<subs, subsReaders>>
       ELSE /\ subs' = [subs EXCEPT ![id] = SubPublish(@, MessageFor(id, sender.it))]
            /\ sender' = [sender EXCEPT !.todo = @ \ {si}, !.sent = @ \cup {si}]
            /\ UNCHANGED subsReaders
    /\ UNCHANGED <<serverVars, index, observe, pub, dequeued, recvd>>

\* send going on to its deferred eviction with the shared hold still taken
sendReturnHoldingRLock ==
    /\ sender.pc = "loop"
    /\ sender.todo = {}
    /\ sender' = SendOver(sender, AfterSend(sender.evict))
    /\ UNCHANGED <<serverVars, subsReaders, index, observe, subs, pub, dequeued,
                   recvd>>

\* send: the loop is over, send returns nil and releases the shared hold
sendReturn ==
    /\ sender.pc = "loop"
    /\ sender.todo = {}
    /\ sender' = SendOver(sender, AfterSend(sender.evict))
    /\ subsReaders' = subsReaders - 1
    /\ UNCHANGED <<serverVars, index, observe, subs, pub, dequeued, recvd>>

\* the subscriptions in the index under the client and query of one in evict
SameKey(evict) ==
    {n \in index.all \ evict :
        \E e \in evict : /\ n.clientID = e.clientID
                         /\ String(n.query) = String(e.query)}

\* a cleanup that evicts by client and query: whatever is registered under
\* the client and query of a subscription that overflowed
sendEvictByKey ==
    /\ sender.pc = "evict"
    /\ subsReaders = 0
    /\ subs' = removeSubsStop(sender.evict \cup SameKey(sender.evict), ErrTerminated)
    /\ index' = removeSubsIndex(sender.evict \cup SameKey(sender.evict))
    /\ sender' = [SendOver(sender, "recv") EXCEPT
                     !.evict = {},
                     !.restopped = @ \cup {si.subID : si \in
                                     {e \in sender.evict : subs[e.subID].stopErr # NIL}},
                     !.spared = @ \cup {si.subID : si \in SameKey(sender.evict)}]
    /\ UNCHANGED <<serverVars, subsReaders, observe, pub, dequeued, recvd>>

\* send, the deferred cleanup: s.subs.Lock(); removeSubs(evict, ErrTerminated)
sendEvict ==
    /\ sender.pc = "evict"
    /\ subsReaders = 0
    /\ subs' = removeSubsStop(sender.evict, ErrTerminated)
    /\ index' = removeSubsIndex(sender.evict)
    /\ sender' = [SendOver(sender, "recv") EXCEPT
                     !.evict = {},
                     !.restopped = @ \cup {si.subID : si \in
                                     {e \in sender.evict : subs[e.subID].stopErr # NIL}},
                     !.spared = @ \cup {si.subID : si \in SameKey(sender.evict)}]
    /\ UNCHANGED <<serverVars, subsReaders, observe, pub, dequeued, recvd>>

\* a sender that leaves its loop as soon as the queue is closed
senderClosedDroppingBuffered ==
    /\ sender.pc = "recv"
    /\ queueClosed
    /\ sender' = [sender EXCEPT !.pc = "terminate",
                                 !.seen = {si.subID : si \in index.all}]
    /\ UNCHANGED <<serverVars, subsReaders, index, observe, subs, pub, dequeued,
                   recvd>>

\* run, the sender: the range loop sees the queue closed and drained
senderClosed ==
    /\ sender.pc = "recv"
    /\ queue = <<>>
    /\ queueClosed
    /\ sender' = [sender EXCEPT !.pc = "terminate",
                                 !.seen = {si.subID : si \in index.all}]
    /\ UNCHANGED <<serverVars, subsReaders, index, observe, subs, pub, dequeued,
                   recvd>>

\* the sender clearing the index without stopping the subscriptions
senderTerminateNoStop ==
    /\ sender.pc = "terminate"
    /\ subsReaders = 0
    /\ index' = NilIndex
    /\ sender' = [sender EXCEPT !.pc = "close"]
    /\ UNCHANGED <<serverVars, subsReaders, observe, subs, pub, dequeued, recvd>>

\* run, the sender: s.subs.Lock(); stop every subscription; index = nil
senderTerminate ==
    /\ sender.pc = "terminate"
    /\ subsReaders = 0
    /\ subs' = removeSubsStop(index.all, ErrTerminated)
    /\ index' = NilIndex
    /\ sender' = [sender EXCEPT !.pc = "close"]
    /\ UNCHANGED <<serverVars, subsReaders, observe, pub, dequeued, recvd>>

\* Wait: <-s.exited has returned
WaitReturned == exited

\* run, the sender: the deferred close(s.exited)
senderExit ==
    /\ sender.pc = "close"
    /\ exited' = TRUE
    /\ sender' = [sender EXCEPT !.pc = "exited"]
    /\ UNCHANGED <<started, done, queueCap, queue, queueClosed, pubsReaders,
                   monitor, subsReaders, index, observe, subs, pub, dequeued,
                   recvd>>

\* ------------------------------------------------------ the specifications
\* the shutdown monitor and the sender
Server ==
    \/ monitorWake
    \/ monitorClose
    \/ senderRecv
    \/ sendObserve
    \/ \E si \in index.all : sendVisit(si)
    \/ sendReturn
    \/ senderClosed
    \/ senderTerminate
    \/ senderExit

\* the Publish calls under way
Publishers ==
    \/ \E k \in PubIDs : publishAbort(k, "done")
    \/ \E k \in PubIDs : publishSend(k)

\* Clients of a server they started first: they subscribe with SubArgs,
\* unsubscribe with UnsubArgs and publish Events until they stop the server.
Clientele(SubArgs, UnsubArgs, Events) ==
    \/ \E a \in SubArgs : started /\ SubscribeWithArgs(a[1], a[2], a[3], a[4])
    \/ \E a \in UnsubArgs : started /\ Unsubscribe(a[1], a[2], a[3])
    \/ \E c \in Clients : started /\ UnsubscribeAll(c)
    \/ \E k \in PubIDs, events \in Events :
          started /\ ~done /\ PublishCall(k, events, "live")

\* Spec: the life of the index.  Clients subscribe with every kind of
\* argument, unsubscribe, and publish matching messages that nobody reads,
\* so that slow subscriptions are evicted; then the server is stopped.
IndexSubArgs ==
    Clients \X (QueryObjs \cup {NIL}) \X {0, 1} \X {0, 2}

Next ==
    \/ Start
    \/ Stop
    \/ Server
    \/ sendEvict
    \/ Publishers
    \/ Clientele(IndexSubArgs, UnsubscribeArgs, {{"a"}})

Spec == Init /\ [][Next]_vars

\* SpecFanout: delivery to slow and fast subscribers.  Clients subscribe
\* with the default queue of one message, read with Next or do not, and
\* publish messages that match, do not match, or fail to evaluate.
FanoutSubArgs ==
    Clients \X {"qa", "qx"} \X {0} \X {0}

FanoutUnsubArgs == Clients \X {0} \X {"qa", "qx"}

NextFanout ==
    \/ Start
    \/ Stop
    \/ Server
    \/ sendEvict
    \/ Publishers
    \/ Clientele(FanoutSubArgs, FanoutUnsubArgs, EventLists)
    \/ \E id \in SubIDs : SubscriptionNext(id)

SpecFanout == Init /\ [][NextFanout]_vars

\* SpecFifo: order of delivery.  One client subscribes with room for two
\* messages, the other with the default queue; both read with Next while
\* concurrent Publish calls race for the queue.
FifoSubArgs == {<<"c1", "qa", 2, 0>>, <<"c2", "qa", 0, 0>>}

NextFifo ==
    \/ Start
    \/ Stop
    \/ Server
    \/ sendEvict
    \/ Publishers
    \/ \E a \in FifoSubArgs : started /\ SubscribeWithArgs(a[1], a[2], a[3], a[4])
    \/ \E k \in PubIDs : started /\ ~done /\ PublishCall(k, {"a"}, "live")
    \/ \E id \in SubIDs : SubscriptionNext(id)

SpecFifo == Init /\ [][NextFifo]_vars

\* SpecQuota: a soft quota below the limit.  One client subscribes with
\* Limit 2 and Quota 1, the other with the defaults; both read with Next
\* while concurrent Publish calls race for the queue.
QuotaSubArgs == {<<"c1", "qa", 2, 1>>, <<"c2", "qa", 0, 0>>}

NextQuota ==
    \/ Start
    \/ Stop
    \/ Server
    \/ sendEvict
    \/ Publishers
    \/ \E a \in QuotaSubArgs : started /\ SubscribeWithArgs(a[1], a[2], a[3], a[4])
    \/ \E k \in PubIDs : started /\ ~done /\ PublishCall(k, {"a"}, "live")
    \/ \E id \in SubIDs : SubscriptionNext(id)

SpecQuota == Init /\ [][NextQuota]_vars

\* SpecQuery: queries over repeated attribute keys.  A client subscribes with
\* conjunctions over the tag transfer.sender, with room for every message,
\* and publish event lists in which the values asked for occur together,
\* apart, under another tag, or not at all.  No subscription overflows, so
\* send has nothing to evict.
QuerySubArgs ==
    {<<"c1", "qFooBaz", 2, 0>>, <<"c1", "qFooNone", 2, 0>>}

NextQuery ==
    \/ Start
    \/ Stop
    \/ Server
    \/ Publishers
    \/ \E a \in QuerySubArgs : started /\ SubscribeWithArgs(a[1], a[2], a[3], a[4])
    \/ \E k \in PubIDs, events \in ValuedEventLists :
          started /\ ~done /\ PublishCall(k, events, "live")

SpecQuery == Init /\ [][NextQuery]_vars

\* SpecCtx: Publish and its context.  Clients publish with a context that
\* is live or already canceled, or cancel it while the call is under way; a
\* subscriber that never reads is there to be served and evicted.
Contexts == {"live", "canceled"}

NextCtx ==
    \/ Start
    \/ Stop
    \/ Server
    \/ sendEvict
    \/ Publishers
    \/ \E k \in PubIDs : publishAbort(k, "ctx")
    \/ \E k \in PubIDs : PublishCancel(k)
    \/ \E k \in PubIDs, ctx \in Contexts :
          started /\ ~done /\ PublishCall(k, {"a"}, ctx)
    \/ started /\ SubscribeWithArgs("c1", "qa", 0, 0)

SpecCtx == Init /\ [][NextCtx]_vars

\* SpecStop: shutdown under load.  Clients keep publishing, cancelling,
\* subscribing and unsubscribing while and after the server is stopped.
StopSubArgs == Clients \X {"qa"} \X {0} \X {0}

StopUnsubArgs == Clients \X {0} \X {"qa"}

NextStop ==
    \/ Start
    \/ Stop
    \/ Server
    \/ sendEvict
    \/ Publishers
    \/ \E k \in PubIDs : publishRLock(k)
    \/ \E k \in PubIDs : publishAbort(k, "ctx")
    \/ \E k \in PubIDs : PublishCancel(k)
    \/ \E k \in PubIDs : started /\ PublishCall(k, {"a"}, "live")
    \/ \E a \in StopSubArgs : started /\ SubscribeWithArgs(a[1], a[2], a[3], a[4])
    \/ \E a \in StopUnsubArgs : started /\ Unsubscribe(a[1], a[2], a[3])

SpecStop == Init /\ [][NextStop]_vars

\* the scheduler runs every goroutine that can take a step: the monitor,
\* the sender, and each Publish call whose select has a ready case
Fairness ==
    /\ WF_vars(monitorWake)
    /\ WF_vars(monitorClose)
    /\ WF_vars(senderRecv)
    /\ WF_vars(sendObserve)
    /\ WF_vars(\E si \in index.all : sendVisit(si))
    /\ WF_vars(sendReturn)
    /\ WF_vars(sendEvict)
    /\ WF_vars(senderClosed)
    /\ WF_vars(senderTerminate)
    /\ WF_vars(senderExit)
    /\ \A k \in PubIDs :
          WF_vars(publishAbort(k, "done") \/ publishAbort(k, "ctx")
                      \/ publishSend(k))

SpecLive == SpecStop /\ Fairness

\* SpecLocks: SpecLive, and a Publish call waiting in s.pubs.RLock() is let
\* in once the monitor has released the exclusive hold.
SpecLocks == SpecLive /\ \A k \in PubIDs : WF_vars(publishRLock(k))

\* SpecNew: a server used before it is started.  Clients subscribe and
\* publish on the server NewServer returned; Start may come later.
NewSubArgs == Clients \X {"qa"} \X {0} \X {0}

NextNew ==
    \/ Start
    \/ Stop
    \/ Server
    \/ sendEvict
    \/ Publishers
    \/ \E a \in NewSubArgs : SubscribeWithArgs(a[1], a[2], a[3], a[4])
    \/ \E a \in StopUnsubArgs : Unsubscribe(a[1], a[2], a[3])
    \/ \E k \in PubIDs : PublishCall(k, {"a"}, "live")

SpecNew == Init /\ [][NextNew]_vars

\* SpecObserve: the observer and the usage errors.  A client registers an
\* observer (a nil one, a second one, one with or without a filter), clients
\* subscribe and unsubscribe with good and bad arguments, publish and read.
ObserveQueries == {{}, {"qx"}}

ObserveSubArgs ==
    {<<"c1", q, cap[1], cap[2]>> : q \in {"qa", NIL}, cap \in Capacities}
        \cup {<<"c2", "qa", 1, 2>>}

\* a subscription, none at all, invalid arguments of either kind
ObserveUnsubArgs ==
    {<<"c1", 0, "qa">>, <<"c2", 0, "qa">>, <<"", 0, "qa">>, <<"c1", 0, NIL>>}

ObserveEvents == {{"a"}, {"x"}}

NextObserve ==
    \/ Start
    \/ Stop
    \/ Server
    \/ sendEvict
    \/ Publishers
    \/ \E fn \in ObserverFns, queries \in ObserveQueries :
          started /\ Observe(fn, queries)
    \/ \E a \in ObserveSubArgs : started /\ SubscribeWithArgs(a[1], a[2], a[3], a[4])
    \/ \E a \in ObserveUnsubArgs : started /\ Unsubscribe(a[1], a[2], a[3])
    \/ \E k \in PubIDs, events \in ObserveEvents :
          started /\ ~done /\ PublishCall(k, events, "live")
    \/ \E id \in SubIDs : SubscriptionNext(id)

SpecObserve == Init /\ [][NextObserve]_vars

\* ------------------------------------------------------------------ claims
\* C1: at any time no two subscriptions in the index share the pair
\* (clientID, query.String()), whatever subscribing, unsubscribing, eviction
\* of slow subscribers and shutdown have done.
C1_Uniqueness ==
    \A s1, s2 \in index.all :
        (s1.clientID = s2.clientID /\ String(s1.query) = String(s2.query))
            => s1 = s2

\* C1: a client holds two subscriptions, a third was evicted by the sender,
\* and subscribing again with another query object that prints like a live
\* one is refused.
C1_Witness ==
    /\ \E s1, s2 \in index.all : s1 # s2 /\ s1.clientID = s2.clientID
    /\ \E id \in DOMAIN subs : subs[id].stopErr = ErrTerminated
    /\ \E si \in index.all :
          /\ si.query = "qa"
          /\ SubscribeResult(si.clientID, "qa2", 0, 0) = ErrAlreadySubscribed

\* s is t with some elements left out, order kept
RECURSIVE IsSubsequence(_, _)
IsSubsequence(s, t) ==
    IF s = <<>> THEN TRUE
    ELSE IF t = <<>> THEN FALSE
    ELSE IF Head(s) = Head(t) THEN IsSubsequence(Tail(s), Tail(t))
    ELSE IsSubsequence(s, Tail(t))

\* no element occurs twice in s
NoRepeat(s) == \A i, j \in DOMAIN s : i # j => s[i] # s[j]

\* C2: for every subscription the messages successive Next calls returned
\* are a subsequence of the order in which the sender dequeued the items,
\* and no message is returned twice, whatever the concurrent publishers do.
C2_Fifo ==
    \A id \in DOMAIN recvd :
        IsSubsequence(recvd[id], dequeued) /\ NoRepeat(recvd[id])

\* C2: the second Publish call won the race for the queue, and a
\* subscription that held both messages at once returned them in the
\* sender's order.
C2_Witness ==
    /\ dequeued = <<2, 1>>
    /\ \E id \in DOMAIN recvd : recvd[id] = <<2, 1>> /\ subs[id].limit = 2

\* C3: no Publish call sends on the publish channel once the shutdown
\* monitor has closed it; the "send on closed channel" panic is unreachable,
\* also for a Publish call that starts after the close.
C3_NoSendOnClosed == \A k \in PubIDs : pub[k].pc # Panic

\* a Publish call is still under way
InProgress(k) == pub[k].pc \in {"rlock", "select"}

\* C4: every Publish call that starts after Stop returns ErrServerStopped
\* and puts no item on the publish channel, whatever the buffer capacity.
\* (A call that returns its context's error or hits the closed channel is
\* not counted here: only a call that returns nil, its item accepted.)
C4_PublishAfterStop ==
    \A k \in PubIDs :
        (pub[k].afterStop /\ pub[k].pc # "idle" /\ ~InProgress(k))
            => pub[k].pc \in {ErrServerStopped, ErrCtx, Panic}

\* C5: on a server that was never started SubscribeWithArgs registers no
\* subscription and Publish neither blocks nor enqueues: both return
\* ErrServerStopped.
C5_NewServerRefuses ==
    ~started =>
        /\ index.all = {}
        /\ subs = <<>>
        /\ queue = <<>>
        /\ \A k \in PubIDs :
              \/ pub[k].pc \in {"idle", ErrServerStopped}
              \/ pub[k].pc = "select" /\ "done" \in SelectReady(k)

\* the phase of the server: NEW, RUNNING, stopping, STOPPED (index cleared)
PhaseRank ==
    IF ~started THEN 0
    ELSE IF ~done THEN 1
    ELSE IF ~IsNil(index) THEN 2
    ELSE 3

\* C6: the phase only moves forward; once the sender has cleared the
\* index it never becomes usable again, every SubscribeWithArgs with a query
\* and every Unsubscribe with valid arguments returns ErrServerStopped, and
\* no subscription is created, removed or changed.
C6_StoppedForGood ==
    /\ [](IsNil(index) =>
            /\ started /\ done /\ queueClosed
            /\ \A a \in IndexSubArgs :
                  a[2] # NIL =>
                      SubscribeResult(a[1], a[2], a[3], a[4]) = ErrServerStopped
            /\ \A a \in UnsubscribeArgs :
                  Validate(a[1], a[2], a[3]) = NIL =>
                      UnsubscribeResult(a[1], a[2], a[3]) = ErrServerStopped)
    /\ [][/\ PhaseRank' >= PhaseRank
          /\ IsNil(index) => (index' = index /\ subs' = subs)]_vars

\* C6: the sender has exited after terminating a subscription, and a
\* client's subscribe and unsubscribe calls are refused.
C6_Witness ==
    /\ IsNil(index)
    /\ exited
    /\ \E id \in DOMAIN subs : subs[id].stopErr = ErrTerminated
    /\ SubscribeResult("c1", "qx", 0, 0) = ErrServerStopped
    /\ UnsubscribeResult("c1", 0, "qa") = ErrServerStopped

\* C7: after Stop, under fair scheduling and with publishers, subscribers
\* and unsubscribers still active, the monitor closes the publish channel,
\* the sender exits and closes exited (Wait returns), and every subscription
\* is terminal (Next returns its terminal error).
C7_ShutdownCompletes ==
    done ~> (/\ queueClosed
             /\ exited
             /\ \A id \in DOMAIN subs : subs[id].stopErr # NIL)

\* C7: shutdown has completed although a Publish call was under way when
\* Stop came, and a subscription was terminated by the sender.
C7_Witness ==
    /\ exited
    /\ queueClosed
    /\ \E id \in DOMAIN subs : subs[id].stopErr = ErrTerminated
    /\ \E k \in PubIDs : ~pub[k].afterStop /\ pub[k].pc = ErrServerStopped

\* C8 as stated: when exited is closed, every subscription that was in the
\* index when the sender saw the publish channel closed has ErrTerminated,
\* and the index is cleared.
C8_SeenAreTerminated ==
    exited =>
        /\ IsNil(index)
        /\ \A id \in sender.seen : subs[id].stopErr = ErrTerminated

\* the step in which the sender, holding s.subs exclusively, terminates
\* the subscriptions and clears the index
TerminateStep == sender.pc = "terminate" /\ sender'.pc = "close"

\* C8: the sender terminates with ErrTerminated every subscription that is
\* in the index when it takes the exclusive hold and clears the index, all
\* before exited is closed; a subscription that was in the index when the
\* sender saw the channel closed is terminal by then, with ErrUnsubscribed
\* if a client removed it in between; after exited no subscription is live.
C8_TerminatedBeforeExit ==
    /\ [](exited =>
            /\ IsNil(index)
            /\ \A id \in DOMAIN subs : subs[id].stopErr # NIL
            /\ \A id \in sender.seen :
                  subs[id].stopErr \in {ErrTerminated, ErrUnsubscribed})
    /\ [][/\ TerminateStep =>
                /\ IsNil(index')
                /\ ~exited /\ ~exited'
                /\ \A si \in index.all :
                      subs'[si.subID].stopErr = ErrTerminated
          /\ exited' => sender.pc \in {"close", "exited"}]_vars

\* C8: exited is closed; one subscription the sender saw at the end of its
\* loop was unsubscribed before the sender took the lock, another was
\* terminated by the sender.
C8_Witness ==
    /\ exited
    /\ \E id \in sender.seen : subs[id].stopErr = ErrUnsubscribed
    /\ \E id \in sender.seen : subs[id].stopErr = ErrTerminated

\* the step in which send's deferred cleanup evicts the slow subscriptions
EvictStep == sender.pc = "evict" /\ sender'.pc = "recv"

\* C9 as stated: once the fan-out in which a subscription overflowed is
\* complete, the subscription is out of the index with ErrTerminated
\* latched, so that Next returns ErrTerminated.
C9_EvictedWithErrTerminated ==
    [][EvictStep =>
          \A si \in sender.evict :
              /\ si \notin index'.all
              /\ subs'[si.subID].stopErr = ErrTerminated
              /\ NextResult(subs'[si.subID]) = ErrTerminated]_vars

\* C9: while the sender handles an item the Publish call that brought it
\* has returned nil; the cleanup after the fan-out leaves every subscription
\* that overflowed out of the index and terminal: with ErrTerminated if it
\* was still in the index, with the earlier ErrUnsubscribed if a client
\* unsubscribed it after the fan-out; a terminal subscription receives no
\* later message and its Next keeps returning the same error.
C9_SlowSubscriberEvicted ==
    /\ [](sender.pc \in {"send", "loop", "evict"} => pub[sender.it.data].pc = OK)
    /\ [][/\ EvictStep =>
                \A si \in sender.evict :
                    /\ si \notin index'.all
                    /\ subs'[si.subID].stopErr # NIL
                    /\ NextResult(subs'[si.subID]) =
                          (IF si \in index.all THEN ErrTerminated
                                               ELSE ErrUnsubscribed)
          /\ \A id \in DOMAIN subs :
                subs[id].stopErr # NIL =>
                    /\ subs'[id] = subs[id]
                    /\ recvd'[id] = recvd[id]
                    /\ \A si \in index'.all : si.subID # id]_vars

\* C9: a subscription was evicted for slowness while the server is running
\* and both Publish calls have returned nil.
C9_Witness ==
    /\ ~done
    /\ sender.pc = "recv"
    /\ \A k \in PubIDs : pub[k].pc = OK
    /\ \E id \in DOMAIN subs :
          /\ subs[id].stopErr = ErrTerminated
          /\ NextResult(subs[id]) = ErrTerminated
          /\ \A si \in index.all : si.subID # id

\* the step in which send returns with a subscription to evict
ReturnStep == sender.pc = "loop" /\ sender'.pc = "evict"

\* the query of si matches the item the sender is handling
MatchesItem(si) == Matches(si.query, sender.it.events) = <<TRUE, NIL>>

ObserveStep == sender.pc = "send" /\ sender'.pc # "send"

\* C11: a message for which the registered observer returned an error is on
\* no subscription's queue and was handed out by no Next, its fan-out never
\* starts and it puts no subscription in the eviction set: send returns at
\* once, leaving every subscription and the index alone.  A message the
\* observer let pass (it returned nil, its filter skipped the message, or
\* none is registered) starts the fan-out over the whole index.
C11_ObserverVeto ==
    /\ [](\A d \in PubIDs :
            <<d, "error">> \in sender.obs =>
               /\ \A id \in Created :
                     /\ \A i \in DOMAIN subs[id].queue : subs[id].queue[i].data # d
                     /\ \A i \in DOMAIN recvd[id] : recvd[id][i] # d
               /\ sender.pc \in {"loop", "evict"} => sender.it.data # d)
    /\ [][ObserveStep =>
             IF ObserverOutcome(observe, sender.it) = "error"
               THEN /\ sender'.pc = "recv"
                    /\ sender'.evict = {}
                    /\ UNCHANGED <<subs, index, subsReaders>>
               ELSE /\ sender'.pc = "loop"
                    /\ sender'.todo = index.all
                    /\ sender'.it = sender.it]_vars

\* C11: the observer let the first message pass and returned an error for
\* the second; the subscriber got the first only and is still subscribed.
C11_Witness ==
    /\ <<1, "returned nil">> \in sender.obs
    /\ <<2, "error">> \in sender.obs
    /\ sender.pc = "recv"
    /\ \E si \in index.all :
          /\ Matches(si.query, {"a"}) = <<TRUE, NIL>>
          /\ recvd[si.subID] = <<1>>
          /\ subs[si.subID].queue = <<>>
          /\ subs[si.subID].stopErr = NIL

\* the outcomes at the observer that let a message through
Passed == {"none", "skipped", "returned nil"}

\* C12: the observer has returned for a message before any subscriber can
\* see it.  Whenever send puts a message on a subscription's queue, send has
\* already been past the observer for that message and the observer did not
\* refuse it; so every message on a queue, and every message Next has
\* handed out, is one the observer was done with.
C12_ObserverFirst ==
    /\ [](\A id \in Created :
            /\ \A i \in DOMAIN subs[id].queue :
                  \E o \in Passed : <<subs[id].queue[i].data, o>> \in sender.obs
            /\ \A i \in DOMAIN recvd[id] :
                  \E o \in Passed : <<recvd[id][i], o>> \in sender.obs)
    /\ [][\A id \in Created :
             Len(subs'[id].queue) > Len(subs[id].queue) =>
                /\ sender.pc = "loop"
                /\ subs'[id].queue[Len(subs'[id].queue)].data = sender.it.data
                /\ \E o \in Passed : <<sender.it.data, o>> \in sender.obs]_vars

\* C12: a message the registered observer was called for is waiting on a
\* subscription's queue.
C12_Witness ==
    /\ observe.fn # NIL
    /\ \E id \in Created :
          /\ subs[id].queue # <<>>
          /\ <<Head(subs[id].queue).data, "returned nil">> \in sender.obs

\* the subscriptions a fan-out may still reach: those in the index and those
\* the loop of send has yet to visit
Reachable == {si.subID : si \in index.all \cup sender.todo}

\* a client's call stopped subscriptions: the sender did not move and no
\* subscription was created
StoppedByClient == subs' # subs /\ sender' = sender /\ Len(subs') = Len(subs)

\* C13: a call of Unsubscribe or UnsubscribeAll that returns nil leaves
\* every subscription it evicted with ErrUnsubscribed latched and out of the
\* index, and it cannot run inside a fan-out; from then on the subscription
\* is in no index, no fan-out that begins later has it on its list, and
\* nothing is put on its queue.
C13_UnsubscribeSynchronous ==
    [][/\ \A a \in UnsubscribeArgs :
             (/\ StoppedByClient
              /\ UnsubscribeResult(a[1], a[2], a[3]) = OK
              /\ Unsubscribe(a[1], a[2], a[3]))
                => /\ sender.pc # "loop"
                   /\ \A si \in UnsubscribeEvict(a[1], a[2], a[3]) :
                         /\ subs'[si.subID].stopErr = ErrUnsubscribed
                         /\ si.subID \notin Reachable'
       /\ \A c \in Clients :
             (/\ StoppedByClient
              /\ UnsubscribeAllResult(c) = OK
              /\ UnsubscribeAll(c))
                => /\ sender.pc # "loop"
                   /\ \A si \in findClientID(index, c) :
                         /\ subs'[si.subID].stopErr = ErrUnsubscribed
                         /\ si.subID \notin Reachable'
       /\ \A id \in Created :
             subs[id].stopErr = ErrUnsubscribed
                => /\ id \notin Reachable'
                   /\ subs'[id].queue = subs[id].queue]_vars

\* C13: a fan-out is under way that began after a subscription was
\* unsubscribed, for a message that subscription's query matches.
C13_Witness ==
    /\ sender.pc = "loop"
    /\ sender.todo # {}
    /\ Matches("qa", sender.it.events) = <<TRUE, NIL>>
    /\ \E id \in Created : subs[id].stopErr = ErrUnsubscribed

\* the subscriptions registered under (clientID, q.String())
RegisteredUnder(clientID, q) ==
    {si \in index.all : si.clientID = clientID /\ String(si.query) = String(q)}

\* C14: while the index exists, Unsubscribe with a subscriber and a query
\* finds at most one subscription under (subscriber, query.String()).  With
\* none it returns ErrSubscriptionNotFound and has nothing to evict;
\* otherwise it returns nil, and the call stops that subscription with
\* ErrUnsubscribed, takes it out of the index, and leaves every other
\* subscription and index entry as it was.
C14_UnsubscribeExact ==
    /\ [](~IsNil(index) =>
            \A a \in UnsubscribeArgs :
               (a[1] # "" /\ a[3] # NIL) =>
                  /\ Cardinality(RegisteredUnder(a[1], a[3])) <= 1
                  /\ UnsubscribeEvict(a[1], a[2], a[3]) = RegisteredUnder(a[1], a[3])
                  /\ UnsubscribeResult(a[1], a[2], a[3]) =
                        IF RegisteredUnder(a[1], a[3]) = {}
                          THEN ErrSubscriptionNotFound ELSE OK)
    /\ [][\A a \in UnsubscribeArgs :
             (/\ StoppedByClient
              /\ a[1] # "" /\ a[3] # NIL
              /\ Unsubscribe(a[1], a[2], a[3]))
                => /\ index'.all = index.all \ RegisteredUnder(a[1], a[3])
                   /\ \A si \in index'.all :
                         /\ si \in findClientID(index', si.clientID)
                         /\ si \in findQuery(index', String(si.query))
                   /\ \A id \in Created :
                         IF \E si \in RegisteredUnder(a[1], a[3]) : si.subID = id
                           THEN subs'[id].stopErr = ErrUnsubscribed
                           ELSE subs'[id] = subs[id]]_vars

\* C14: the subscription created last was unsubscribed while the two older
\* ones, of different clients and for different queries, so one of them of
\* the same client, are still in the index and live.
C14_Witness ==
    /\ Len(subs) = 3
    /\ subs[3].stopErr = ErrUnsubscribed
    /\ {si.subID : si \in index.all} = {1, 2}
    /\ \E s1, s2 \in index.all :
          /\ s1.clientID # s2.clientID
          /\ String(s1.query) # String(s2.query)
          /\ subs[s1.subID].stopErr = NIL
          /\ subs[s2.subID].stopErr = NIL

\* the subscriptions of a client in the index
OfClient(clientID) == {si \in index.all : si.clientID = clientID}

\* C15: while the index exists, NumClients counts the clients that have a
\* subscription and NumClientSubscriptions those of one client, and
\* UnsubscribeAll returns ErrSubscriptionNotFound, with nothing to evict,
\* for a client without subscription and nil otherwise.  A call for a
\* client with subscriptions stops each of them with ErrUnsubscribed and
\* takes them out of the index, leaves the subscriptions of other clients
\* untouched and in the index, and afterwards the client has zero
\* subscriptions and is no longer counted by NumClients.
C15_UnsubscribeAllExact ==
    /\ [](~IsNil(index) =>
            /\ NumClients = Cardinality({si.clientID : si \in index.all})
            /\ \A c \in Clients :
                  /\ NumClientSubscriptions(c) = Cardinality(OfClient(c))
                  /\ findClientID(index, c) = OfClient(c)
                  /\ UnsubscribeAllResult(c) =
                        IF OfClient(c) = {} THEN ErrSubscriptionNotFound ELSE OK)
    /\ [][\A c \in Clients :
             (StoppedByClient /\ UnsubscribeAll(c))
                => /\ index'.all = index.all \ OfClient(c)
                   /\ NumClientSubscriptions(c)' = 0
                   /\ c \notin DOMAIN index'.byClient
                   /\ NumClients' = NumClients - 1
                   /\ \A d \in Clients \ {c} :
                         NumClientSubscriptions(d)' = NumClientSubscriptions(d)
                   /\ \A id \in Created :
                         IF \E si \in OfClient(c) : si.subID = id
                           THEN subs'[id].stopErr = ErrUnsubscribed
                           ELSE subs'[id] = subs[id]]_vars

\* C15: both subscriptions of one client were unsubscribed; the other
\* client's subscription is live and that client is the only one counted.
C15_Witness ==
    /\ Len(subs) = 3
    /\ Cardinality({id \in Created : subs[id].stopErr = ErrUnsubscribed}) = 2
    /\ \E si \in index.all : index.all = {si} /\ subs[si.subID].stopErr = NIL
    /\ NumClients = 1
    /\ \E c \in Clients : NumClientSubscriptions(c) = 0

\* C16: the terminal error of a subscription is latched once.  From the
\* moment a subscription is terminal, no step changes its error or what Next
\* returns, whoever stops it again and with whatever reason.
C16_TerminalLatch ==
    [][\A id \in Created :
          subs[id].stopErr # NIL =>
             /\ subs'[id].stopErr = subs[id].stopErr
             /\ NextResult(subs'[id]) = NextResult(subs[id])]_vars

\* C16: a subscription that sat in the eviction set of send was
\* unsubscribed, then stopped with ErrTerminated by the deferred cleanup;
\* Next still returns ErrUnsubscribed.
C16_Witness ==
    \E id \in sender.restopped :
       /\ subs[id].stopErr = ErrUnsubscribed
       /\ NextResult(subs[id]) = ErrUnsubscribed

\* the Limit the subscriber of SpecFifo asked for (0 means 1)
LimitAsked(si) ==
    LET a == CHOOSE a \in FifoSubArgs : a[1] = si.clientID /\ a[2] = si.query
    IN IF a[3] = 0 THEN 1 ELSE a[3]

\* one iteration of the loop of send, for si
VisitStep(si) ==
    /\ si \in sender.todo
    /\ sender.pc = "loop" /\ sender'.pc = "loop"
    /\ sender'.todo = sender.todo \ {si}

\* C17: a subscription created with Limit = N and no quota never holds more
\* than N messages; a fan-out that reaches it for a matching message while
\* it is live and holds fewer than N puts the message at the end of its
\* queue and does not mark it for eviction; so a live subscription is
\* marked for eviction only after it has accepted N messages, however
\* few of them Next has taken.
C17_LimitHonoured ==
    /\ [](\A si \in index.all \cup sender.evict :
            /\ Len(subs[si.subID].queue) <= LimitAsked(si)
            /\ (si \in sender.evict /\ subs[si.subID].stopErr = NIL) =>
                  Len(recvd[si.subID]) + Len(subs[si.subID].queue) >= LimitAsked(si))
    /\ [][\A si \in sender.todo :
             (/\ VisitStep(si)
              /\ MatchesItem(si)
              /\ subs[si.subID].stopErr = NIL
              /\ Len(subs[si.subID].queue) < LimitAsked(si))
                => /\ Len(subs'[si.subID].queue) = Len(subs[si.subID].queue) + 1
                   /\ subs'[si.subID].queue[Len(subs'[si.subID].queue)].data
                         = sender.it.data
                   /\ subs'[si.subID].stopErr = NIL
                   /\ si \notin sender'.evict]_vars

\* C17: the subscriber that asked for Limit = 2 has called Next for
\* nothing; both messages published are on its queue and it is subscribed.
C17_Witness ==
    /\ \A k \in PubIDs : pub[k].pc = OK
    /\ sender.pc = "recv"
    /\ \E si \in index.all :
          /\ LimitAsked(si) = 2
          /\ Len(subs[si.subID].queue) = 2
          /\ recvd[si.subID] = <<>>
          /\ subs[si.subID].stopErr = NIL

\* the arguments the subscriber of SpecQuota passed
QuotaAsked(si) ==
    CHOOSE a \in QuotaSubArgs : a[1] = si.clientID /\ a[2] = si.query

C19_CanceledPublishAborts ==
    [][\A k \in PubIDs :
          (/\ pub[k].pc = "select"
           /\ pub[k].ctx = "canceled"
           /\ pub'[k].pc # "select")
             => /\ pub'[k].pc \in {ErrCtx, ErrServerStopped, Panic}
                /\ queue' = queue
                /\ dequeued' = dequeued]_vars

\* a step that changed the index, the observer or a subscription
Changed == index' # index \/ observe' # observe \/ subs' # subs

\* C20: the calls that return a usage error are the ones the code refuses
\* (SubscribeWithArgs: nil query, pair already subscribed, invalid
\* capacities; Unsubscribe: invalid arguments, nothing found; Observe: nil
\* callback, observer already registered), and a call that returns an error
\* leaves the index, the observer and every subscription as they were: no
\* step that changes one of them is such a call.
C20_UsageErrorsChangeNothing ==
    /\ [](~IsNil(index) =>
            /\ \A a \in ObserveSubArgs :
                  SubscribeResult(a[1], a[2], a[3], a[4]) =
                     IF a[2] = NIL THEN ErrQueryIsNil
                     ELSE IF RegisteredUnder(a[1], a[2]) # {} THEN ErrAlreadySubscribed
                     ELSE IF a[4] > (IF a[3] = 0 THEN 1 ELSE a[3]) THEN ErrInvalidLimit
                     ELSE OK
            /\ \A a \in ObserveUnsubArgs :
                  UnsubscribeResult(a[1], a[2], a[3]) =
                     IF a[1] = "" THEN ErrNoSubscriber
                     ELSE IF a[2] = 0 /\ a[3] = NIL THEN ErrNotFullyDefined
                     ELSE IF RegisteredUnder(a[1], a[3]) = {} THEN ErrSubscriptionNotFound
                     ELSE OK
            /\ \A fn \in ObserverFns, queries \in ObserveQueries :
                  ObserveResult(fn, queries) =
                     IF fn = NIL THEN ErrObserveNil
                     ELSE IF observe # NoObserver THEN ErrObserveTwice
                     ELSE OK)
    /\ [][Changed =>
             /\ \A a \in ObserveSubArgs :
                   ~(/\ SubscribeResult(a[1], a[2], a[3], a[4]) # OK
                     /\ SubscribeWithArgs(a[1], a[2], a[3], a[4]))
             /\ \A a \in ObserveUnsubArgs :
                   ~(/\ UnsubscribeResult(a[1], a[2], a[3]) # OK
                     /\ Unsubscribe(a[1], a[2], a[3]))
             /\ \A fn \in ObserverFns, queries \in ObserveQueries :
                   ~(/\ ObserveResult(fn, queries) # OK
                     /\ Observe(fn, queries))]_vars

\* C20: a state in which each of the refused calls can be made, and which
\* a refused call leaves as it is: a subscription with a message waiting and
\* an observer are registered, so a second subscription under the same
\* pair, one with a nil query, one with a quota above its limit, an
\* Unsubscribe without subscriber or for a client that has none, a nil
\* observer and a second observer are all turned down.
C20_Witness ==
    /\ observe # NoObserver
    /\ \E si \in index.all : subs[si.subID].queue # <<>>
    /\ SubscribeResult("c1", "qa", 0, 0) = ErrAlreadySubscribed
    /\ SubscribeResult("c1", NIL, 0, 0) = ErrQueryIsNil
    /\ SubscribeResult("c2", "qa", 1, 2) = ErrInvalidLimit
    /\ UnsubscribeResult("", 0, "qa") = ErrNoSubscriber
    /\ UnsubscribeResult("c1", 0, NIL) = ErrNotFullyDefined
    /\ UnsubscribeResult("c2", 0, "qa") = ErrSubscriptionNotFound
    /\ ObserveResult(NIL, {}) = ErrObserveNil
    /\ ObserveResult("rejectEven", {"qx"}) = ErrObserveTwice

\* C21: once shutdown has completed (exited is signalled, the index is
\* cleared) UnsubscribeAll and NumClients still return normally, without a
\* panic on the cleared index.
C21_NoPanicAfterShutdown ==
    exited =>
       /\ ~NumClientsPanics
       /\ \A c \in Clients : UnsubscribeAllResult(c) # Panic

\* C22: Stop can be invoked any number of times, by anyone, at any moment
\* after Start.  The publish channel is closed by one step and no close is
\* attempted on the closed channel; the subscriptions are terminated and the
\* index cleared by one step, after which no subscription changes; exited is
\* signalled by one step; none of this is ever undone or done again.  Wait
\* returns only when all of it has happened, and once Stop was invoked it
\* does return.
C22_StopIdempotent ==
    /\ [](/\ monitor = "lock" => ~queueClosed
          /\ sender.pc \in {"terminate", "close"} => ~exited
          /\ sender.pc = "terminate" => ~IsNil(index)
          /\ WaitReturned =>
                /\ done /\ queueClosed /\ IsNil(index)
                /\ monitor = "exit" /\ sender.pc = "exited"
                /\ \A id \in Created : subs[id].stopErr # NIL)
    /\ [][/\ done => done'
          /\ queueClosed => queueClosed'
          /\ monitor = "exit" => monitor' = "exit"
          /\ IsNil(index) => (IsNil(index') /\ subs' = subs)
          /\ sender.pc \in {"close", "exited"} => sender'.pc \in {"close", "exited"}
          /\ exited => (exited' /\ sender' = sender)]_vars
    /\ (done ~> WaitReturned)

\* C22: shutdown is complete and Stop can still be invoked; subscriptions
\* were terminated and a Publish call made after Stop was turned away.
C22_Witness ==
    /\ started /\ done /\ WaitReturned
    /\ monitor = "exit" /\ sender.pc = "exited"
    /\ \E id \in Created : subs[id].stopErr = ErrTerminated
    /\ \E k \in PubIDs : pub[k].afterStop /\ pub[k].pc = ErrServerStopped

\* send returns from inside its loop, with subscriptions left to visit
MatchErrorStep ==
    sender.pc = "loop" /\ sender'.pc # "loop" /\ sender.todo # {}

\* the query of si fails to evaluate on the item being sent
FailsToMatch(si) == Matches(si.query, sender.it.events)[2] # NIL

\* C23 as stated: a query that fails to evaluate does not end the fan-out;
\* when send is over, no subscription whose query matches the message is
\* left unvisited.
C23_FanoutContinues ==
    [][(sender.pc = "loop" /\ sender'.pc # "loop") =>
          \A si \in sender.todo : ~MatchesItem(si)]_vars

\* C23: a query that fails to evaluate ends the fan-out of that message.
\* send returns at the first such subscription it reaches: the loop never
\* goes on past one, the subscriptions and the index are as they were, the
\* offending subscription is not marked for eviction and no other is marked
\* because of the error, and the sender goes on with the evictions the loop
\* had collected or with the next message.  Only subscriptions whose query
\* matched without error are ever evicted by send.
C23_MatchErrorEndsFanout ==
    /\ [](sender.pc \in {"loop", "evict"} =>
            \A si \in sender.evict \cup sender.sent : MatchesItem(si))
    /\ [][/\ \A si \in sender.todo : VisitStep(si) => ~FailsToMatch(si)
          /\ MatchErrorStep =>
                /\ \E si \in sender.todo : FailsToMatch(si)
                /\ subs' = subs
                /\ index' = index
                /\ sender'.pc = AfterSend(sender.evict)
                /\ sender'.pc = "evict" => sender'.evict = sender.evict
          /\ (sender.pc = "loop" /\ sender'.pc # "loop" /\ sender.todo = {}) =>
                \A si \in index.all : ~FailsToMatch(si)]_vars

\* C23: send has returned a match error after marking a full subscription
\* for eviction; a subscription whose query matches the message was not
\* reached and does not have it, and the offending subscription is in the
\* index and not marked.
C23_Witness ==
    /\ sender.pc = "evict"
    /\ sender.err # NIL
    /\ \E si \in index.all \ (sender.sent \cup sender.evict) :
          /\ MatchesItem(si)
          /\ \A i \in DOMAIN subs[si.subID].queue :
                subs[si.subID].queue[i].data # sender.it.data
    /\ \E si \in index.all \ sender.evict : FailsToMatch(si)

\* C24: the subscriptions considered for a message are those in the index
\* when send has taken its shared hold.  While the loop of send runs the
\* index does not change and no subscription is created; the loop only
\* visits, and only enqueues on, subscriptions of that set, and only the
\* item it was called for.  A subscription added later is therefore never
\* given the message.
C24_FanoutSetFixed ==
    /\ [](sender.pc = "loop" =>
            /\ subsReaders > 0
            /\ sender.todo \cup sender.sent \cup sender.evict \subseteq index.all)
    /\ [][/\ ObserveStep /\ sender'.pc = "loop" => sender'.todo = index.all
          /\ sender.pc = "loop" =>
                /\ index' = index
                /\ Len(subs') = Len(subs)
                /\ sender'.todo \subseteq sender.todo
                /\ sender'.it = sender.it \/ sender'.pc = "recv"
          /\ \A id \in Created :
                Len(subs'[id].queue) > Len(subs[id].queue) =>
                   /\ sender.pc = "loop"
                   /\ \E si \in sender.todo : si.subID = id
                   /\ subs'[id].queue[Len(subs'[id].queue)].data = sender.it.data
                   /\ \A i \in DOMAIN subs[id].queue :
                         subs[id].queue[i].data # sender.it.data]_vars

\* C24: send has gone through the whole index for a message and is waiting
\* to evict; a subscription whose query matches the message was added
\* since and has not been given it.
C24_Witness ==
    /\ sender.pc = "evict"
    /\ sender.err = NIL
    /\ \E si \in index.all \ (sender.sent \cup sender.evict) :
          /\ MatchesItem(si)
          /\ subs[si.subID].queue = <<>>
          /\ recvd[si.subID] = <<>>

\* how many times the item with data d was given to subscription id:
\* still on its queue, or handed out by Next
Copies(id, d) ==
    Cardinality({i \in DOMAIN subs[id].queue : subs[id].queue[i].data = d})
        + Cardinality({i \in DOMAIN recvd[id] : recvd[id][i] = d})

\* send returns nil: the loop has visited the whole index without a match
\* error (and the observer had let the item pass)
SendReturnsNil ==
    sender.pc = "loop" /\ sender'.pc # "loop" /\ sender.todo = {}

Occurs(events, type, key, value) ==
    \E i \in DOMAIN events :
       /\ events[i].type = type
       /\ \E j \in DOMAIN events[i].attributes :
             events[i].attributes[j] = <<key, value>>

\* every value the conjunction q asks for occurs under the tag it names,
\* each in an attribute of its own choosing
AllOccur(q, events) ==
    \A n \in DOMAIN Conditions(q) :
       Occurs(events, Conditions(q)[n].tag[1], Conditions(q)[n].tag[2],
              Conditions(q)[n].value)

\* C26: matching over repeated attribute keys is per condition.  For every
\* event list, the conjunction T.k='a' AND T.k='b' matches, without error,
\* iff some value under T.k equals 'a' and some (possibly other) value under
\* T.k equals 'b'.  A subscription with such a query is given a message by
\* send iff that is the case for the events of the message: it is given it
\* at its visit, once, and never evicted for it.
C26_MatchPerCondition ==
    /\ \A q \in ConjunctionQueries, events \in ValuedEventLists :
          Matches(q, events) = <<AllOccur(q, events), NIL>>
    /\ [](sender.pc # "evict")
    /\ [][/\ \A si \in sender.todo :
                (sender.pc = "loop" /\ VisitStep(si)) =>
                   /\ si \in sender'.sent <=> AllOccur(si.query, sender.it.events)
                   /\ si \notin sender'.evict
          /\ SendReturnsNil =>
                \A si \in index.all :
                   Copies(si.subID, sender.it.data) =
                      IF AllOccur(si.query, sender.it.events) THEN 1 ELSE 0]_vars

\* C26: send has gone through the index for the event list of the test,
\* where the senders foo and baz are attributes of two different events:
\* the subscription asking for foo AND baz has the message, the one asking
\* for foo AND DoesNotExist does not.
C26_Witness ==
    /\ sender.pc = "loop"
    /\ sender.todo = {}
    /\ sender.it.events = DuplicateKeysEvents
    /\ ~OccurrenceHolds(Conditions("qFooBaz"), sender.it.events)
    /\ \E si \in sender.sent :
          /\ si.query = "qFooBaz"
          /\ Copies(si.subID, sender.it.data) = 1
    /\ \E si \in index.all \ sender.sent :
          /\ si.query = "qFooNone"
          /\ Copies(si.subID, sender.it.data) = 0

\* C27: at most one observer is ever registered.  While none is registered
\* Observe with a callback succeeds; once one is registered every Observe
\* returns an error; Observe with a nil callback always returns an error.
\* The observer changes only from none to a callback given to a successful
\* Observe, and from then on it stays as it is, shutdown included: it is
\* never replaced, removed, or set to a nil callback.
C27_SingleObserver ==
    /\ [](/\ observe.fn = NIL <=> observe = NoObserver
          /\ \A fn \in ObserverFns, queries \in ObserveQueries :
                /\ fn = NIL => ObserveResult(fn, queries) = ErrObserveNil
                /\ (fn # NIL /\ observe = NoObserver) =>
                      ObserveResult(fn, queries) = OK
                /\ observe # NoObserver => ObserveResult(fn, queries) # OK)
    /\ [][/\ observe # NoObserver => observe' = observe
          /\ observe' # observe =>
                /\ observe'.fn # NIL
                /\ \E fn \in ObserverFns \ {NIL}, queries \in ObserveQueries :
                      /\ observe' = [fn |-> fn, queries |-> queries]
                      /\ ObserveResult(fn, queries) = OK]_vars

\* C27: the observer registered first, for every message, has been called
\* for a message; an Observe with another filter and an Observe with a nil
\* callback can be made and are turned down.
C27_Witness ==
    /\ observe = [fn |-> "rejectEven", queries |-> {}]
    /\ \E o \in sender.obs : o[2] \in {"error", "returned nil"}
    /\ ObserveResult("rejectEven", {"qx"}) = ErrObserveTwice
    /\ ObserveResult(NIL, {"qx"}) = ErrObserveNil

\* the Publish calls holding s.pubs shared
PubsHolders == {k \in PubIDs : pub[k].pc = "select"}

\* a step that takes s.pubs, shared or exclusive
TakesPubs == pubsReaders' > pubsReaders \/ (monitor = "lock" /\ monitor' = "exit")

\* every task that is waiting for a lock, or holds one, can take a step or
\* waits for a holder that can
NoTaskStuck ==
    /\ sender.pc = "send" => ENABLED sendObserve
    /\ sender.pc = "loop" =>
          ENABLED (sendReturn \/ \E si \in index.all : sendVisit(si))
    /\ sender.pc = "evict" => ENABLED sendEvict
    /\ sender.pc = "terminate" => ENABLED senderTerminate
    /\ sender.pc = "close" => ENABLED senderExit
    /\ monitor = "lock" =>
          \/ ENABLED monitorClose
          \/ \E k \in PubsHolders : ENABLED publishAbort(k, "done")
    /\ \A k \in PubIDs :
          /\ pub[k].pc = "rlock" => (monitor = "lock" \/ ENABLED publishRLock(k))
          /\ (pub[k].pc = "select" /\ done) => ENABLED publishAbort(k, "done")

\* C28: the sender holds s.subs shared exactly while it is in the loop of
\* send, and asks for the exclusive hold (to evict, to terminate) only when
\* it holds nothing; s.pubs is held shared by the Publish calls in their
\* select and by nobody else, and a step that takes s.pubs is not a step of
\* the sender and touches nothing s.subs protects; the index and the
\* observer change only when nobody holds s.subs.  No task is ever stuck,
\* and every request for a lock is granted in the end: the monitor closes
\* the queue, a waiting Publish call is let in, the eviction is carried
\* out, and after Stop every task finishes.
C28_NoDeadlock ==
    /\ [](/\ subsReaders = (IF sender.pc = "loop" THEN 1 ELSE 0)
          /\ sender.pc \in {"evict", "terminate"} => subsReaders = 0
          /\ pubsReaders = Cardinality(PubsHolders)
          /\ NoTaskStuck)
    /\ [][/\ TakesPubs =>
                /\ sender' = sender
                /\ subsReaders' = subsReaders
                /\ <<index, observe, subs>>' = <<index, observe, subs>>
          /\ (index' # index \/ observe' # observe) =>
                (subsReaders = 0 /\ subsReaders' = 0)]_vars
    /\ (monitor = "lock" ~> monitor = "exit")
    /\ (sender.pc = "evict" ~> sender.pc = "recv")
    /\ \A k \in PubIDs : (pub[k].pc = "rlock" ~> pub[k].pc # "rlock")
    /\ (done ~> (/\ exited
                 /\ monitor = "exit"
                 /\ \A k \in PubIDs : pub[k].pc \notin {"rlock", "select"}))

\* C28: the sender is about to take s.subs exclusively for an eviction, and
\* holds nothing, while the monitor is waiting for s.pubs.
C28_Witness ==
    /\ sender.pc = "evict"
    /\ sender.evict # {}
    /\ subsReaders = 0
    /\ monitor = "lock"

\* Publish returned nil for the item with data k
Accepted(k) == pub[k].pc = OK

\* the item with data k is buffered in the publish channel
Buffered(k) == \E i \in DOMAIN queue : queue[i].data = k

\* send has been called for the item with data k
FannedOut(k) == \E o \in sender.obs : o[1] = k

\* C29: an item for which Publish returned nil is in the publish channel,
\* or in the hands of the sender, or has been passed to send; it leaves the
\* channel only by being received by the sender.  When the sender leaves
\* its loop to terminate the subscriptions the channel is empty and send has
\* been called for every accepted item, and no item is accepted after that.
\* An accepted item is passed to send in the end, whether the server is
\* stopped meanwhile or not.
C29_AcceptedItemsFannedOut ==
    /\ [](/\ \A k \in PubIDs :
                Accepted(k) =>
                   \/ Buffered(k)
                   \/ (sender.pc = "send" /\ sender.it.data = k)
                   \/ FannedOut(k)
          /\ sender.pc \in {"terminate", "close", "exited"} =>
                /\ queue = <<>>
                /\ \A k \in PubIDs : Accepted(k) => FannedOut(k))
    /\ [][/\ queue # <<>> /\ queue' # queue /\ Len(queue') <= Len(queue) =>
                /\ queue' = Tail(queue)
                /\ sender.pc = "recv" /\ sender'.pc = "send"
                /\ sender'.it = Head(queue)
          /\ TerminateStep =>
                /\ \A k \in PubIDs : Accepted(k) => FannedOut(k)
                /\ \A k \in PubIDs : Accepted(k)' = Accepted(k)
          /\ sender.pc \in {"close", "exited"} =>
                \A k \in PubIDs : Accepted(k)' = Accepted(k)]_vars
    /\ \A k \in PubIDs : (Accepted(k) ~> FannedOut(k))

\* C29: the sender has left its loop and is about to terminate the
\* subscriptions; a Publish call made after Stop was invoked returned nil,
\* so its item was in the channel during the shutdown, and a subscription
\* still to be terminated has been given it.
C29_Witness ==
    /\ sender.pc = "terminate"
    /\ queueClosed
    /\ \E k \in PubIDs :
          /\ pub[k].afterStop
          /\ Accepted(k)
          /\ FannedOut(k)
          /\ \E si \in index.all :
                /\ subs[si.subID].stopErr = NIL
                /\ \E i \in DOMAIN subs[si.subID].queue :
                      subs[si.subID].queue[i].data = k

\* the Publish call k waits in its select for room on the publish channel
BlockedForRoom(k) == pub[k].pc = "select" /\ ~CanSend

\* the Publish call k has been told to give up: Stop was invoked or its
\* context was canceled
ToldToAbort(k) == done \/ pub[k].ctx = "canceled"

\* C30: a Publish call waiting for room on the publish channel can return
\* as soon as Stop is invoked or its context is canceled, and not before;
\* when it returns while there is still no room it returns ErrServerStopped
\* (Stop was invoked) or ctx.Err() (its context was canceled), gives up its
\* shared hold on s.pubs and leaves the channel alone.  Every Publish call
\* under way when Stop is invoked or its context is canceled returns in the
\* end, a call returned holds nothing, and the monitor, once it asks for
\* s.pubs, gets it and closes the channel.
C30_BlockedPublishReturns ==
    /\ [](/\ \A k \in PubIDs :
                BlockedForRoom(k) =>
                   /\ ToldToAbort(k) =>
                         ENABLED (publishAbort(k, "done") \/ publishAbort(k, "ctx"))
                   /\ ~ToldToAbort(k) => SelectReady(k) = {}
          /\ pubsReaders = Cardinality({k \in PubIDs : pub[k].pc = "select"}))
    /\ [][\A k \in PubIDs :
             (BlockedForRoom(k) /\ pub'[k].pc # "select") =>
                /\ pub'[k].pc \in {ErrServerStopped, ErrCtx}
                /\ pub'[k].pc = ErrServerStopped => done
                /\ pub'[k].pc = ErrCtx => pub[k].ctx = "canceled"
                /\ pubsReaders' = pubsReaders - 1
                /\ queue' = queue
                /\ dequeued' = dequeued]_vars
    /\ \A k \in PubIDs :
          ((InProgress(k) /\ ToldToAbort(k)) ~> ~InProgress(k))
    /\ (done ~> (queueClosed /\ pubsReaders = 0))

\* C30: the channel has one place, taken by an item the sender has not
\* received; a Publish call that started before Stop and found no room has
\* returned ErrServerStopped, and the monitor has closed the channel.
C30_Witness ==
    /\ queueCap = 1
    /\ Len(queue) = 1
    /\ dequeued = <<>>
    /\ \E k \in PubIDs :
          /\ ~pub[k].afterStop
          /\ pub[k].pc = ErrServerStopped
          /\ \A i \in DOMAIN queue : queue[i].data # k
    /\ monitor = "exit"
    /\ queueClosed

\* C31: an Unsubscribe whose arguments name a subscriber and a subscription
\* ID, and no query, removes the subscription with that ID and no other:
\* whatever the call evicts has the ID asked for.
C31_UnsubscribeByIDOnly ==
    ~IsNil(index) =>
       \A a \in UnsubscribeArgs :
          (a[1] # "" /\ a[2] # 0 /\ a[3] = NIL /\ Validate(a[1], a[2], a[3]) = NIL) =>
             \A si \in UnsubscribeEvict(a[1], a[2], a[3]) : si.subID = a[2]

\* the relations of the index agree: each lists, under its key, the entries
\* of the index with that key, and has no empty key
RelationsAgree(idx) ==
    /\ DOMAIN idx.byClient = {si.clientID : si \in idx.all}
    /\ \A c \in DOMAIN idx.byClient :
          idx.byClient[c] = {si \in idx.all : si.clientID = c}
    /\ DOMAIN idx.byQuery = {String(si.query) : si \in idx.all}
    /\ \A qs \in DOMAIN idx.byQuery :
          idx.byQuery[qs] = {si \in idx.all : String(si.query) = qs}

\* C32: the deferred cleanup of send affects the subscriptions that
\* overflowed in that fan-out and no other.  It takes those of them that are
\* still in the index out of it and leaves every other entry where it was,
\* in every relation; it terminates those that were live and leaves every
\* other subscription as it was.  In particular a subscription registered
\* meanwhile under the client and query of one that overflowed stays in the
\* index, is not terminated and keeps its messages.  The relations of the
\* index agree before and after.
C32_EvictionSparesOthers ==
    /\ [](~IsNil(index) => RelationsAgree(index))
    /\ [][EvictStep =>
             /\ index'.all = index.all \ sender.evict
             /\ RelationsAgree(index')
             /\ \A si \in index.all \ sender.evict :
                   /\ si \in findClientID(index', si.clientID)
                   /\ si \in findQuery(index', String(si.query))
                   /\ subs'[si.subID] = subs[si.subID]
             /\ \A id \in Created :
                   IF \E e \in sender.evict : e.subID = id
                     THEN subs'[id].stopErr =
                             (IF subs[id].stopErr = NIL THEN ErrTerminated
                                                        ELSE subs[id].stopErr)
                     ELSE subs'[id] = subs[id]
             /\ \A n \in SameKey(sender.evict) :
                   /\ n \in index'.all
                   /\ subs'[n.subID].stopErr = subs[n.subID].stopErr]_vars

\* C32: a subscription that overflowed was unsubscribed and its client
\* subscribed again with the same query before the cleanup ran; after the
\* cleanup the old subscription is as the Unsubscribe left it and the new
\* one is in the index, under its client and its query, and live.
C32_Witness ==
    /\ sender.pc = "recv"
    /\ \E old \in sender.restopped, new \in sender.spared :
          /\ subs[old].stopErr = ErrUnsubscribed
          /\ subs[new].stopErr = NIL
          /\ \E si \in index.all :
                /\ si.subID = new
                /\ si \in findClientID(index, si.clientID)
                /\ si \in findQuery(index, String(si.query))
                /\ \A o \in index.all : o.subID # old

====
